---- MODULE Spec2Model ----
(***************************************************************************)
(* Model of bot.py: the two update handlers handle_media and button_cb,   *)
(* the per-user user_data dictionary, and the temporary files they create *)
(* and delete.                                                             *)
(*                                                                         *)
(* A handler is a coroutine: it runs without interruption from one await   *)
(* to the next, so every action below is the code between two awaits.      *)
(* Spec lets handlers interleave at their awaits; SpecSeq dispatches an     *)
(* update only when no handler is in progress (one event at a time), which *)
(* is what an Application built as in main (no concurrent_updates) does.   *)
(* SpecEnv is SpecSeq with temp files that can be removed from outside.    *)
(* All three start with main reading BOT_TOKEN.                            *)
(*                                                                         *)
(* Failure model: get_file/download_to_drive, send_document and the ffmpeg *)
(* process may fail; text replies and message edits succeed; os.unlink of  *)
(* an existing file succeeds (POSIX semantics, open handles do not pin).   *)
(***************************************************************************)
EXTENDS Integers, FiniteSets, Sequences, TLC

\* --------------------------------------------------------------- bounds
MaxHandlers == 2
MaxEvents == 3

Users == {"u1", "u2"}
Slots == 1..MaxHandlers
FileIds == 1..MaxEvents

\* ------------------------------------------------------------ vocabulary
None == 0
NoName == "None"

\* An incoming message: which media attribute is set and its file_name.
Messages ==
  { [media |-> "video", file_name |-> "clip.mp4"],
    [media |-> "animation", file_name |-> "anim.gif"],
    [media |-> "video", file_name |-> NoName],
    [media |-> "other", file_name |-> NoName] }

\* os.environ.get("BOT_TOKEN"): unset, empty, or a token.
BotTokens == {"None", "", "123:abc"}

\* Mutant of TokenMissing: only the unset variable is refused.
TokenMissingOnlyUnset(t) == t = "None"

\* not TOKEN
TokenMissing(t) == t = "None" \/ t = ""

\* Mutant of Supported: every message is taken for a video.
SupportedAlways(m) == TRUE

\* message.video or message.animation is set
Supported(m) == m.media \in {"video", "animation"}

\* callback_data of a button click.
Tokens == {"original", "compress", "other"}

\* Path(filename).suffix
Suffix(filename) ==
  CASE filename = "clip.mp4" -> ".mp4"
    [] filename = "anim.gif" -> ".gif"
    [] OTHER -> ""

\* ------------------------------------------------------------- user_data
\* The three last_media_* keys are written together and popped together.
NoItem == [path |-> None, mime |-> "None", filename |-> "None"]

\* Mutant of StoreItem: an upload is recorded only when nothing is pending.
StoreItemKeepFirst(d, path, mime, filename) ==
  IF d.path # None THEN d
  ELSE [path |-> path, mime |-> mime, filename |-> filename]

\* user_data[...] = ... (the three assignments of handle_media)
StoreItem(d, path, mime, filename) ==
  [path |-> path, mime |-> mime, filename |-> filename]

\* user_data.get(...) of the three keys at the start of button_cb
ReadItem(d) ==
  [path |-> d.path, mime |-> d.mime,
   filename |-> IF d.filename = "None" THEN "file" ELSE d.filename]

\* the three user_data.pop(..., None)
ClearItem(d) == NoItem

\* ------------------------------------------------------------ filesystem
\* os.path.exists
Exists(fs, p) == p \in fs

\* os.unlink of a path
Unlink(fs, p) == fs \ {p}

\* Mutant of NothingStored: the `not media_path` test is missing.
NothingStoredOnlyMissing(fs, mp) == mp # None /\ ~Exists(fs, mp)

\* not media_path or not os.path.exists(media_path)
NothingStored(fs, mp) == mp = None \/ ~Exists(fs, mp)

\* the "cleanup input" block of the finally clause
ReleaseInput(fs, mp) ==
  IF mp # None /\ Exists(fs, mp) THEN Unlink(fs, mp) ELSE fs

\* Mutant of ReleaseOutput: the output file is never unlinked.
ReleaseOutputNever(fs, out) == fs

\* the "cleanup output" block after the compressed document was sent
ReleaseOutput(fs, out) == Unlink(fs, out)

\* what the branch where run_ffmpeg raised does to the files: nothing
ReleaseOnTranscodeFailure(fs, out) == fs

\* suffix of the output temp file
OutSuffix(mime, filename) ==
  IF mime \in {"video", "animation"} THEN ".mp4" ELSE Suffix(filename)

\* exit statuses the ffmpeg process can end with for an input path
FfmpegExit(fs, input) == IF Exists(fs, input) THEN {0, 1} ELSE {1}

\* subprocess.run: returns when the process has exited
SubprocessRun(proc) == "exited"

\* Mutant of RunFfmpeg: the exit status is not looked at.
RunFfmpegIgnoresStatus(rc, out) == out

\* run_ffmpeg: the output path on exit status 0, an exception otherwise
RunFfmpeg(rc, out) == IF rc # 0 THEN None ELSE out

\* ----------------------------------------------------------------- state
VARIABLES
  files,     \* temp files that exist on storage
  meta,      \* meta[f]: what temp file f was created as (tempfile registry)
  ud,        \* ud[u]: context.user_data of user u
  prompts,   \* prompts[u]: uploads whose choice prompt is shown to u
  hs,        \* hs[s]: the handler running in slot s, with its local variables
             \* (stale, prev and ops are history: whether the clicked prompt
             \* was superseded, the path the store overwrote, what was done)
  nev,       \* number of updates dispatched so far
  lastRec,   \* lastRec[u]: path of the upload handle_media recorded last
  uses,      \* history: every take/open/transcode/send of a file by button_cb
  last,      \* the handler that returned in the step just taken, if one did
  token,     \* the BOT_TOKEN value of the process environment
  app        \* main: "start", "serving" (run_polling) or "failed" (raised)

vars == <<files, meta, ud, prompts, hs, nev, lastRec, uses, last, token, app>>

IdleH ==
  [kind |-> "idle", pc |-> "idle", ev |-> 0, user |-> "None", data |-> "None",
   origin |-> None, item |-> NoItem, tmp |-> None, reply |-> "None",
   ops |-> {}, stale |-> FALSE, prev |-> None,
   proc |-> "none", rc |-> -1, ret |-> None, runs |-> 0]

NoLast ==
  [kind |-> "none", ev |-> 0, user |-> "None", data |-> "None",
   origin |-> None, item |-> NoItem, tmp |-> None, reply |-> "None",
   ops |-> {}, stale |-> FALSE, prev |-> None, res |-> "none"]

Init ==
  /\ files = {}
  /\ meta = << >>
  /\ ud = [u \in Users |-> NoItem]
  /\ prompts = [u \in Users |-> {}]
  /\ hs = [s \in Slots |-> IdleH]
  /\ nev = 0
  /\ lastRec = [u \in Users |-> None]
  /\ uses = {}
  /\ last = NoLast
  /\ token \in BotTokens
  /\ app = "start"

\* main: read the token, refuse to start without one, else register the
\* handlers and poll.
Main ==
  /\ app = "start"
  /\ app' = IF TokenMissing(token) THEN "failed" ELSE "serving"
  /\ UNCHANGED <<files, meta, ud, prompts, hs, nev, lastRec, uses, last, token>>

\* Updates are handled only while run_polling runs.
Serving == app = "serving" /\ UNCHANGED <<token, app>>

\* ---------------------------------------------------------------- helpers
\* The handler object of a freshly dispatched update.
NewHandler(kind, u, data, origin) ==
  [IdleH EXCEPT !.kind = kind, !.pc = "start", !.ev = nev + 1, !.user = u,
                !.data = data, !.origin = origin]

\* Updates are dispatched into the first free slot.
FreeSlot(s) ==
  /\ hs[s].kind = "idle"
  /\ \A t \in Slots : t < s => hs[t].kind # "idle"

AllIdle == \A s \in Slots : hs[s].kind = "idle"

\* tempfile.NamedTemporaryFile(delete=False, suffix=...): a fresh name
NewTemp == Len(meta) + 1

\* The handler in slot s returns (or raises) with result res.
Finish(s, h, res) ==
  /\ hs' = [hs EXCEPT ![s] = IdleH]
  /\ last' = [kind |-> h.kind, ev |-> h.ev, user |-> h.user, data |-> h.data,
              origin |-> h.origin, item |-> h.item, tmp |-> h.tmp,
              reply |-> h.reply, stale |-> h.stale, prev |-> h.prev,
              res |-> res,
              ops |-> h.ops \cup (IF files \ files' # {} THEN {"unlink"} ELSE {})]

Use(h, op, src, doc) ==
  [ev |-> h.ev, user |-> h.user, op |-> op, src |-> src, doc |-> doc,
   latest |-> (src = lastRec[h.user])]

\* ----------------------------------------------------------- handle_media
\* Dispatch of a message to handle_media, up to its first await.
MediaStart(u, m) ==
  /\ Serving
  /\ nev < MaxEvents
  /\ nev' = nev + 1
  /\ \E s \in Slots :
       /\ FreeSlot(s)
       /\ LET h == NewHandler("media", u, m.media, None) IN
          IF ~Supported(m)
          THEN \* neither video nor animation: reply and return
               /\ UNCHANGED <<files, meta, ud, prompts, lastRec, uses>>
               /\ Finish(s, [h EXCEPT !.reply = "unsupported"], "unsupported")
          ELSE IF m.file_name = NoName
          THEN \* Path(None) raises before the temp file is created
               /\ UNCHANGED <<files, meta, ud, prompts, lastRec, uses>>
               /\ Finish(s, h, "raised")
          ELSE /\ files' = files \cup {NewTemp}
               /\ meta' = Append(meta, [kind |-> "in", user |-> u,
                                        suffix |-> Suffix(m.file_name)])
               /\ hs' = [hs EXCEPT ![s] =
                          [h EXCEPT !.pc = "download", !.tmp = NewTemp,
                                    !.ops = {"create"},
                                    !.item = [path |-> NewTemp, mime |-> m.media,
                                              filename |-> m.file_name]]]
               /\ UNCHANGED <<ud, prompts, lastRec, uses>>
               /\ last' = NoLast

\* get_file and download_to_drive succeeded: record the upload, send the prompt.
MediaDownloaded(s) ==
  /\ Serving
  /\ hs[s].kind = "media" /\ hs[s].pc = "download"
  /\ LET h == hs[s] IN
     /\ ud' = [ud EXCEPT ![h.user] =
                 StoreItem(@, h.item.path, h.item.mime, h.item.filename)]
     /\ lastRec' = [lastRec EXCEPT ![h.user] = h.tmp]
     /\ hs' = [hs EXCEPT ![s] =
                [h EXCEPT !.pc = "prompt", !.prev = ud[h.user].path]]
  /\ UNCHANGED <<files, meta, prompts, nev, uses>>
  /\ last' = NoLast

\* get_file or download_to_drive raised: the exception leaves the handler.
MediaDownloadFails(s) ==
  /\ Serving
  /\ hs[s].kind = "media" /\ hs[s].pc = "download"
  /\ UNCHANGED <<files, meta, ud, prompts, nev, lastRec, uses>>
  /\ Finish(s, hs[s], "download_failed")

\* reply_text with the two-button keyboard was delivered.
MediaPrompt(s) ==
  /\ Serving
  /\ hs[s].kind = "media" /\ hs[s].pc = "prompt"
  /\ prompts' = [prompts EXCEPT ![hs[s].user] = @ \cup {hs[s].tmp}]
  /\ UNCHANGED <<files, meta, ud, nev, lastRec, uses>>
  /\ Finish(s, [hs[s] EXCEPT !.reply = "prompt"], "offered")

\* -------------------------------------------------------------- button_cb
\* Mutant of Finally: the cleanup follows the sends instead of standing in
\* a finally clause, so it is skipped when the handler returns early or raises.
FinallyOnSuccessOnly(s, h, fs, res) ==
  /\ files' = IF res \in {"sent_original", "sent_compressed"}
               THEN ReleaseInput(fs, h.item.path) ELSE fs
  /\ ud' = IF res \in {"sent_original", "sent_compressed"}
            THEN [ud EXCEPT ![h.user] = ClearItem(@)] ELSE ud
  /\ Finish(s, h, res)

\* The finally clause: cleanup input, then clear user_data.
Finally(s, h, fs, res) ==
  /\ files' = ReleaseInput(fs, h.item.path)
  /\ ud' = [ud EXCEPT ![h.user] = ClearItem(@)]
  /\ Finish(s, h, res)

\* Dispatch of a button click to button_cb, up to `await query.answer()`.
\* The click comes from the keyboard of a prompt shown to the user.
CbStart(u, origin, data) ==
  /\ Serving
  /\ nev < MaxEvents
  /\ origin \in prompts[u]
  /\ nev' = nev + 1
  /\ \E s \in Slots :
       /\ FreeSlot(s)
       /\ hs' = [hs EXCEPT ![s] =
                  [NewHandler("cb", u, data, origin) EXCEPT !.pc = "answer"]]
  /\ UNCHANGED <<files, meta, ud, prompts, lastRec, uses>>
  /\ last' = NoLast

\* query.answer() returned: read user_data, test the stored path, pick the branch.
CbRead(s) ==
  /\ Serving
  /\ hs[s].kind = "cb" /\ hs[s].pc = "answer"
  /\ LET item == ReadItem(ud[hs[s].user])
         h == [hs[s] EXCEPT !.item = item,
                            !.stale = (hs[s].origin # lastRec[hs[s].user])]
     IN
     IF NothingStored(files, item.path)
     THEN /\ UNCHANGED <<files, meta, ud, prompts, nev, lastRec, uses>>
          /\ Finish(s, [h EXCEPT !.reply = "nofile"], "nofile")
     ELSE /\ uses' = uses \cup {Use(h, "take", item.path, item.path)}
          /\ UNCHANGED <<meta, prompts, nev, lastRec>>
          /\ CASE h.data = "original" ->
                    /\ hs' = [hs EXCEPT ![s] =
                               [h EXCEPT !.pc = "edit_orig", !.reply = "sending_original"]]
                    /\ UNCHANGED <<files, ud>>
                    /\ last' = NoLast
               [] h.data = "compress" ->
                    /\ hs' = [hs EXCEPT ![s] =
                               [h EXCEPT !.pc = "edit_comp", !.reply = "compressing"]]
                    /\ UNCHANGED <<files, ud>>
                    /\ last' = NoLast
               [] OTHER -> Finally(s, h, files, "ignored")

\* "original": the status edit returned; open(media_path) and start the send.
CbOpenOrig(s) ==
  /\ Serving
  /\ hs[s].kind = "cb" /\ hs[s].pc = "edit_orig"
  /\ LET h == hs[s] IN
     IF Exists(files, h.item.path)
     THEN /\ uses' = uses \cup {Use(h, "open", h.item.path, h.item.path)}
          /\ hs' = [hs EXCEPT ![s] = [h EXCEPT !.pc = "send_orig"]]
          /\ UNCHANGED <<files, meta, ud, prompts, nev, lastRec>>
          /\ last' = NoLast
     ELSE \* FileNotFoundError
          /\ UNCHANGED <<meta, prompts, nev, lastRec, uses>>
          /\ Finally(s, h, files, "raised")

\* "original": send_document returned; the confirmation edit is issued.
CbSentOrig(s) ==
  /\ Serving
  /\ hs[s].kind = "cb" /\ hs[s].pc = "send_orig"
  /\ LET h == hs[s] IN
     /\ uses' = uses \cup {Use(h, "send", h.item.path, h.item.path)}
     /\ hs' = [hs EXCEPT ![s] =
                [h EXCEPT !.pc = "done_orig", !.reply = "sent_original",
                          !.ops = @ \cup {"send"}]]
  /\ UNCHANGED <<files, meta, ud, prompts, nev, lastRec>>
  /\ last' = NoLast

\* "original": send_document raised.
CbSendOrigFails(s) ==
  /\ Serving
  /\ hs[s].kind = "cb" /\ hs[s].pc = "send_orig"
  /\ UNCHANGED <<meta, prompts, nev, lastRec, uses>>
  /\ Finally(s, hs[s], files, "send_failed")

\* "original": the confirmation edit returned; the finally clause runs.
CbFinishOrig(s) ==
  /\ Serving
  /\ hs[s].kind = "cb" /\ hs[s].pc = "done_orig"
  /\ UNCHANGED <<meta, prompts, nev, lastRec, uses>>
  /\ Finally(s, hs[s], files, "sent_original")

\* "compress": the status edit returned; create the output temp file and
\* hand the ffmpeg run to the executor.
CbCreateOut(s) ==
  /\ Serving
  /\ hs[s].kind = "cb" /\ hs[s].pc = "edit_comp"
  /\ LET h == hs[s] IN
     /\ files' = files \cup {NewTemp}
     /\ meta' = Append(meta, [kind |-> "out", user |-> h.user,
                              suffix |-> OutSuffix(h.item.mime, h.item.filename)])
     /\ hs' = [hs EXCEPT ![s] =
                [h EXCEPT !.pc = "ffmpeg", !.tmp = NewTemp,
                          !.ops = @ \cup {"create"}, !.proc = "running"]]
  /\ UNCHANGED <<ud, prompts, nev, lastRec, uses>>
  /\ last' = NoLast

\* "compress": the ffmpeg process exited with status rc and run_ffmpeg
\* returned or raised.
CbFfmpeg(s, rc) ==
  /\ Serving
  /\ hs[s].kind = "cb" /\ hs[s].pc = "ffmpeg"
  /\ rc \in FfmpegExit(files, hs[s].item.path)
  /\ LET out_path == RunFfmpeg(rc, hs[s].tmp)
         h == [hs[s] EXCEPT !.ops = @ \cup {"transcode"},
                            !.proc = SubprocessRun(@), !.rc = rc,
                            !.ret = out_path, !.runs = @ + 1]
         ran == Use(h, "transcode", h.item.path, h.tmp)
     IN
     IF out_path = None
     THEN \* except branch: report the failure
          /\ uses' = uses \cup {ran}
          /\ hs' = [hs EXCEPT ![s] =
                     [h EXCEPT !.pc = "fail_reply", !.reply = "compress_failed"]]
          /\ UNCHANGED <<files, meta, ud, prompts, nev, lastRec>>
          /\ last' = NoLast
     ELSE IF Exists(files, out_path)
     THEN \* open(out_path) and start the send
          /\ uses' = uses \cup {ran, Use(h, "open", h.item.path, out_path)}
          /\ hs' = [hs EXCEPT ![s] = [h EXCEPT !.pc = "send_comp"]]
          /\ UNCHANGED <<files, meta, ud, prompts, nev, lastRec>>
          /\ last' = NoLast
     ELSE \* FileNotFoundError
          /\ uses' = uses \cup {ran}
          /\ UNCHANGED <<meta, prompts, nev, lastRec>>
          /\ Finally(s, h, files, "raised")

\* "compress": the failure report was delivered; return through finally.
CbFailReply(s) ==
  /\ Serving
  /\ hs[s].kind = "cb" /\ hs[s].pc = "fail_reply"
  /\ UNCHANGED <<meta, prompts, nev, lastRec, uses>>
  /\ Finally(s, hs[s], ReleaseOnTranscodeFailure(files, hs[s].tmp),
             "transcode_failed")

\* "compress": send_document returned; the confirmation edit is issued.
CbSentComp(s) ==
  /\ Serving
  /\ hs[s].kind = "cb" /\ hs[s].pc = "send_comp"
  /\ LET h == hs[s] IN
     /\ uses' = uses \cup {Use(h, "send", h.item.path, h.tmp)}
     /\ hs' = [hs EXCEPT ![s] =
                [h EXCEPT !.pc = "done_comp", !.reply = "sent_compressed",
                          !.ops = @ \cup {"send"}]]
  /\ UNCHANGED <<files, meta, ud, prompts, nev, lastRec>>
  /\ last' = NoLast

\* "compress": send_document raised.
CbSendCompFails(s) ==
  /\ Serving
  /\ hs[s].kind = "cb" /\ hs[s].pc = "send_comp"
  /\ UNCHANGED <<meta, prompts, nev, lastRec, uses>>
  /\ Finally(s, hs[s], files, "send_failed")

\* "compress": the confirmation edit returned; cleanup output, then finally.
CbFinishComp(s) ==
  /\ Serving
  /\ hs[s].kind = "cb" /\ hs[s].pc = "done_comp"
  /\ UNCHANGED <<meta, prompts, nev, lastRec, uses>>
  /\ Finally(s, hs[s], ReleaseOutput(files, hs[s].tmp), "sent_compressed")

\* --------------------------------------------------------- specifications
\* A suspended handler resumes.
Step ==
  \E s \in Slots :
    \/ MediaDownloaded(s)
    \/ MediaDownloadFails(s)
    \/ MediaPrompt(s)
    \/ CbRead(s)
    \/ CbOpenOrig(s)
    \/ CbSentOrig(s)
    \/ CbSendOrigFails(s)
    \/ CbFinishOrig(s)
    \/ CbCreateOut(s)
    \/ \E rc \in {0, 1} : CbFfmpeg(s, rc)
    \/ CbFailReply(s)
    \/ CbSentComp(s)
    \/ CbSendCompFails(s)
    \/ CbFinishComp(s)

\* An update arrives and its handler is started.
DispatchFor(u) ==
  \/ \E m \in Messages : MediaStart(u, m)
  \/ \E o \in FileIds, d \in Tokens : CbStart(u, o, d)

Dispatch == \E u \in Users : DispatchFor(u)

\* Handlers interleave at their awaits.
Next == Main \/ Dispatch \/ Step

Spec == Init /\ [][Next]_vars

\* One update at a time: the next one is dispatched when no handler runs.
DispatchSeqFor(u) == AllIdle /\ DispatchFor(u)

NextSeq == Main \/ (\E u \in Users : DispatchSeqFor(u)) \/ Step

SpecSeq == Init /\ [][NextSeq]_vars

\* A temp file is removed from outside the bot (a cleaner of the temp
\* directory): what the os.path.exists test of button_cb guards against.
Reap(f) ==
  /\ Serving
  /\ f \in files
  /\ files' = files \ {f}
  /\ last' = NoLast
  /\ UNCHANGED <<meta, ud, prompts, hs, nev, lastRec, uses>>

\* One update at a time, with temp files that can vanish.
NextEnv == NextSeq \/ \E f \in FileIds : Reap(f)

SpecEnv == Init /\ [][NextEnv]_vars

TypeOK ==
  /\ files \subseteq FileIds
  /\ Len(meta) <= MaxEvents
  /\ nev \in 0..MaxEvents
  /\ \A u \in Users : ud[u].path \in FileIds \cup {None}
  /\ token \in BotTokens
  /\ app \in {"start", "serving", "failed"}

\* ================================================================ claims
\* button_cb returned in the step just taken, having passed the stored-file test.
Handled == last.kind = "cb" /\ last.res # "nofile"

\* Events of button_cb that obtained file f (passed the test of line 121 with it).
Takers(f) == {x \in uses : x.op = "take" /\ x.src = f}

\* Events of button_cb that sent a document made from file f.
Senders(f) == {x \in uses : x.op = "send" /\ x.src = f}

\* C1: whenever button_cb has handled a decision for a stored item whose file
\* existed, the input file is gone from storage when the handler has finished,
\* on every branch (original sent, compressed sent, transcode failed, send or
\* open raised, unknown token).
C1_ZeroLeakInput == Handled => last.item.path \notin files

C1_Witness ==
  /\ Handled /\ last.res = "transcode_failed"
  /\ last.item.path # None /\ last.item.path \notin files

\* C2: when handle_media has recorded and offered a new upload of a user who
\* had a pending item, the previous item's file is deleted; with no handler
\* in progress at most one recorded upload of a user exists on storage.
C2_SupersessionCleanup ==
  /\ (last.kind = "media" /\ last.res = "offered" /\ last.prev # None)
       => last.prev \notin files
  /\ AllIdle => \A u \in Users : Cardinality(prompts[u] \cap files) <= 1

\* C3: with one event handled at a time, every file button_cb takes, opens,
\* transcodes or sends is (or is made from) the upload recorded last for
\* that user at that moment.
C3_OnlyLatestDeliverable == \A x \in uses : x.latest

C3_Witness ==
  \E x \in uses :
    /\ x.op = "send" /\ x.src = lastRec[x.user]
    /\ \E f \in prompts[x.user] : f # x.src

\* C4: a decision that finds no last_media_path replies "no file stored" and
\* sends nothing, transcodes nothing, creates no temp file, deletes no file.
C4_AbsentIsNoOp ==
  (last.kind = "cb" /\ last.item.path = None)
    => /\ last.reply = "nofile" /\ last.res = "nofile"
       /\ last.ops = {}
       /\ \A x \in uses : x.ev # last.ev

C4_Witness ==
  /\ last.kind = "cb" /\ last.item.path = None /\ last.reply = "nofile"
  /\ last.origin \notin files

\* C5: with one event handled at a time, once a decision has been completed
\* on the upload recorded last, a later decision of that user finds nothing
\* and replies "no file stored"; no upload is obtained by two decisions.
C5_ConsumeOnceSequential ==
  /\ \A f \in FileIds : Cardinality(Takers(f)) <= 1
  /\ (last.kind = "cb"
        /\ \E x \in Takers(lastRec[last.user]) : x.ev # last.ev)
       => last.res = "nofile" /\ last.reply = "nofile" /\ last.ops = {}

C5_Witness ==
  /\ last.kind = "cb" /\ last.res = "nofile"
  /\ \E x \in Takers(lastRec[last.user]) : x.ev # last.ev

C7_StaleDecisionNoOp ==
  (last.kind = "cb" /\ last.stale)
    => /\ last.res = "nofile" /\ last.ops = {}
       /\ \A x \in uses : x.ev # last.ev

\* C8: when the transcoder fails, after button_cb the output temp file is
\* gone, the input file is gone and the session entry is cleared.
C8_FailedTranscodeReleasesOutput ==
  (last.kind = "cb" /\ last.res = "transcode_failed")
    => /\ last.tmp \notin files
       /\ last.item.path \notin files
       /\ ud[last.user] = NoItem

\* C9: when transcode and delivery succeed, the output file is on storage
\* while it is delivered, and when button_cb has finished the document was
\* sent, input and output are gone and the session entry is cleared.
C9_CompressSuccess ==
  /\ \A s \in Slots :
       (hs[s].kind = "cb" /\ hs[s].pc \in {"send_comp", "done_comp"})
         => hs[s].tmp \in files
  /\ (last.kind = "cb" /\ last.res = "sent_compressed")
       => /\ \E x \in uses : x.ev = last.ev /\ x.op = "send" /\ x.doc = last.tmp
          /\ last.item.path \notin files
          /\ last.tmp \notin files
          /\ ud[last.user] = NoItem

C9_Witness ==
  /\ last.kind = "cb" /\ last.res = "sent_compressed"
  /\ last.tmp # None /\ last.tmp \notin files
  /\ last.item.path \notin files

\* C10: with no handler in progress, every temp file on storage is the
\* backing file of some user's pending item.
C10_NoTempLeak ==
  AllIdle => \A f \in files : \E u \in Users : ud[u].path = f

\* C11: while the ffmpeg process of one user's decision runs, an update of
\* a different user can be dispatched to its handler.
C11_TranscodeDoesNotBlock ==
  \A s \in Slots :
    (hs[s].kind = "cb" /\ hs[s].pc = "ffmpeg" /\ hs[s].proc = "running"
       /\ nev < MaxEvents)
      => \E u \in Users \ {hs[s].user} : ENABLED DispatchSeqFor(u)

\* C12: when the download fails, no pending item is recorded for the upload,
\* the user gets a message reporting the failure, and the temp file acquired
\* for the download is gone.
C12_DownloadFailureAborts ==
  (last.kind = "media" /\ last.res = "download_failed")
    => /\ ud[last.user].path # last.tmp
       /\ last.reply = "download_failed"
       /\ last.tmp \notin files

\* Replies of button_cb that report an error to the user.
ErrorReplies == {"compress_failed", "send_failed"}

\* C13: a decision that ends in a transcode failure or a failed document
\* send leaves the session entry cleared and has told the user of the error.
C13_ErrorsAreReported ==
  (last.kind = "cb" /\ last.res \in {"transcode_failed", "send_failed"})
    => /\ ud[last.user] = NoItem
       /\ last.reply \in ErrorReplies

\* C14: once run_ffmpeg has returned or raised, the process has exited, it
\* ran once, and exit status 0 gave exactly the output path while any other
\* status gave no path.
C14_RunFfmpegByExitStatus ==
  \A s \in Slots :
    (hs[s].kind = "cb" /\ hs[s].pc \in {"fail_reply", "send_comp", "done_comp"})
      => /\ hs[s].proc = "exited"
         /\ hs[s].runs = 1
         /\ hs[s].rc = 0 => hs[s].ret = hs[s].tmp /\ hs[s].pc # "fail_reply"
         /\ hs[s].rc # 0 => hs[s].ret = None /\ hs[s].pc = "fail_reply"

C14_Witness ==
  \E s \in Slots :
    /\ hs[s].kind = "cb" /\ hs[s].pc = "fail_reply"
    /\ hs[s].proc = "exited" /\ hs[s].rc # 0 /\ hs[s].ret = None

\* C15: with BOT_TOKEN unset or empty, main never serves: no update is
\* dispatched and no handler runs.
C15_NoTokenNoService ==
  token \in {"None", ""}
    => /\ app # "serving"
       /\ nev = 0 /\ AllIdle /\ last = NoLast
       /\ files = {}

C15_Witness == token = "" /\ app = "failed"

\* C16: a decision that finds a stored entry whose file is missing replies
\* "no file stored" and leaves the session entry cleared.
C16_MissingFileClearsEntry ==
  (last.kind = "cb" /\ last.res = "nofile" /\ last.item.path # None)
    => /\ last.reply = "nofile"
       /\ ud[last.user] = NoItem

C19_UnknownTokenStillConsumes ==
  (last.kind = "cb" /\ last.data = "other" /\ last.res # "nofile")
    => /\ last.ops = {"unlink"}
       /\ \A x \in uses : x.ev = last.ev => x.op = "take"
       /\ last.item.path \notin files
       /\ ud[last.user] = NoItem

C19_Witness ==
  /\ last.kind = "cb" /\ last.data = "other" /\ last.res = "ignored"
  /\ last.item.path # None /\ last.item.path \notin files

====
